---- MODULE Spec2Model ----
(***************************************************************************)
(* Model of pydsdl's composite types (pydsdl/_serializable/_composite.py): *)
(* construction and validation of StructureType / UnionType, the extent    *)
(* and bit-length-set derivation, the union tag width, and the generators  *)
(* iterate_fields_with_offsets.                                            *)
(***************************************************************************)
EXTENDS Integers, Sequences, FiniteSets, TLC

VARIABLES
    pc,         \* "init" | "constructed" | "failed" | "tag", or the step of
                \* ServiceType.__init__: "request" | "response" | "container"
    meta,       \* the class whose constructor is called
    args,       \* the arguments of the constructor call
    self,       \* the constructed composite type (NoObject when construction raised)
    error,      \* "none", or the exception the constructor raised
    gen,        \* the generator returned by iterate_fields_with_offsets
    yielded,    \* the (field, offset) pairs the generator has yielded so far
    tag_call,   \* a direct call of UnionType._compute_tag_bit_length
    mem,        \* the BitLengthSet objects alive, and who refers to them
    item        \* the last call of __getitem__: its argument and its outcome

vars == <<pc, meta, args, self, error, gen, yielded, tag_call, mem, item>>

(***************************************************************************)
(* Bounds of the model.                                                    *)
(***************************************************************************)
\* The longest attribute list handed to a constructor.
MaxAttributes == 2
\* The longest attribute list of the constructions whose layout is examined.
MaxFields == 3
\* Explicit extents are drawn from {0, 4, 8, ..., 4 * MaxExtentQuads}.
MaxExtentQuads == 14
\* Direct calls of _compute_tag_bit_length take every variant count up to this.
MaxVariants == 40
\* How often a caller reads bit_length_set, mutates a set it was handed, and
\* iterates over the fields of the same type.
MaxReads == 2
MaxMutations == 1
MaxIterations == 2

(***************************************************************************)
(* Program constants.                                                      *)
(***************************************************************************)
BITS_PER_BYTE == 8
MAX_NAME_LENGTH == 50
MAX_VERSION_NUMBER == 255
DEFAULT_DELIMITER_HEADER_BIT_LENGTH == 32
MIN_NUMBER_OF_VARIANTS == 2
MAX_SUBJECT_ID == 8191
MAX_SERVICE_ID == 511

(***************************************************************************)
(* Optional values: None is the empty tuple, a present value v is <<v>>.   *)
(***************************************************************************)
None == <<>>
Some(v) == <<v>>

SetMax(S) == CHOOSE x \in S : \A y \in S : y <= x
SetMin(S) == CHOOSE x \in S : \A y \in S : x <= y
SeqRange(s) == {s[i] : i \in 1..Len(s)}

(***************************************************************************)
(* BitLengthSet (pydsdl/_bit_length_set.py): a finite set of bit counts.   *)
(***************************************************************************)
\* BitLengthSet.pad_to_alignment: every element goes up to the next multiple.
PadToAlignment(s, a) == {((x + a - 1) \div a) * a : x \in s}

\* BitLengthSet.__add__ / __iadd__ with a set: the pairwise sums; an empty
\* left operand counts as {0} (the structure fold starts from BitLengthSet()).
BlsAdd(s, t) == LET l == IF s = {} THEN {0} ELSE s
                IN  {x + y : x \in l, y \in t}

\* BitLengthSet.__add__ / __iadd__ with an integer: the scalar shift.
BlsShift(s, n) == BlsAdd(s, {n})

\* BitLengthSet.is_aligned_at
IsAlignedAt(s, a) == \A x \in s : x % a = 0

(***************************************************************************)
(* Attributes and the serializable types their data_type refers to.        *)
(***************************************************************************)
DataType(kind, a, bls, dep) ==
    [kind |-> kind, alignment_requirement |-> a, bit_length_set |-> bls, deprecated |-> dep]

Field(t, name) == [cls |-> "Field", name |-> name, data_type |-> t]
PaddingField(t) == [cls |-> "PaddingField", name |-> "", data_type |-> t]
Constant(t, name) == [cls |-> "Constant", name |-> name, data_type |-> t]

\* isinstance(a, Field): PaddingField is a subclass of Field.
IsField(a) == a.cls \in {"Field", "PaddingField"}

\* CompositeType.fields
Fields(attributes) == SelectSeq(attributes, IsField)

\* [f.data_type for f in self.fields]
FieldTypes(attributes) ==
    LET fs == Fields(attributes) IN [i \in 1..Len(fs) |-> fs[i].data_type]

\* CompositeType.alignment_requirement
AlignmentRequirement(attributes) ==
    SetMax({BITS_PER_BYTE} \cup
           {FieldTypes(attributes)[i].alignment_requirement :
                i \in 1..Len(FieldTypes(attributes))})

(***************************************************************************)
(* Results of operations that may raise: the exception, or "none" and the  *)
(* returned value.                                                         *)
(***************************************************************************)
Return(v) == [raised |-> "none", value |-> v]
Raise(e, v) == [raised |-> e, value |-> v]

(***************************************************************************)
(* UnionType._compute_tag_bit_length                                       *)
(***************************************************************************)
\* int.bit_length()
RECURSIVE BitLength(_)
BitLength(n) == IF n = 0 THEN 0 ELSE 1 + BitLength(n \div 2)

RECURSIVE Pow2AtLeast(_, _)
Pow2AtLeast(p, n) == IF p >= n THEN p ELSE Pow2AtLeast(2 * p, n)

\* 2 ** math.ceil(math.log2(n)) for n >= 1
Pow2CeilLog2(n) == Pow2AtLeast(1, n)

\* int.bit_count(): the number of ones
RECURSIVE BitCount(_)
BitCount(n) == IF n = 0 THEN 0 ELSE (n % 2) + BitCount(n \div 2)

\* _compute_tag_bit_length that counts the ones of len - 1 instead of its bits
ComputeTagBitLength_BitCount(n, aligns) ==
    IF n > 1
    THEN LET unaligned_tag_bit_length == BitCount(n - 1)
             pow2 == Pow2CeilLog2(SetMax({BITS_PER_BYTE, unaligned_tag_bit_length}))
             tag_bit_length == SetMax({pow2} \cup aligns)
         IN  IF tag_bit_length \in {8, 16, 32, 64}
             THEN Return(tag_bit_length)
             ELSE Raise("AssertionError", tag_bit_length)
    ELSE Raise("ValueError", 0)

\* _compute_tag_bit_length without the rounding up to a power of two
ComputeTagBitLength_NoPow2(n, aligns) ==
    IF n > 1
    THEN LET unaligned_tag_bit_length == BitLength(n - 1)
             tag_bit_length ==
                SetMax({BITS_PER_BYTE, unaligned_tag_bit_length} \cup aligns)
         IN  IF tag_bit_length \in {8, 16, 32, 64}
             THEN Return(tag_bit_length)
             ELSE Raise("AssertionError", tag_bit_length)
    ELSE Raise("ValueError", 0)

\* _compute_tag_bit_length that leaves the alignment requirements of the
\* variants out of account
ComputeTagBitLength_NoAlignment(n, aligns) ==
    IF n > 1
    THEN LET unaligned_tag_bit_length == BitLength(n - 1)
             tag_bit_length ==
                Pow2CeilLog2(SetMax({BITS_PER_BYTE, unaligned_tag_bit_length}))
         IN  IF tag_bit_length \in {8, 16, 32, 64}
             THEN Return(tag_bit_length)
             ELSE Raise("AssertionError", tag_bit_length)
    ELSE Raise("ValueError", 0)

\* The body of _compute_tag_bit_length, on len(field_types) and on the set
\* of the alignment requirements of field_types.
ComputeTagBitLength(n, aligns) ==
    IF n > 1
    THEN LET unaligned_tag_bit_length == BitLength(n - 1)
             pow2 == Pow2CeilLog2(SetMax({BITS_PER_BYTE, unaligned_tag_bit_length}))
             tag_bit_length == SetMax({pow2} \cup aligns)
         IN  IF tag_bit_length \in {8, 16, 32, 64}
             THEN Return(tag_bit_length)
             ELSE Raise("AssertionError", tag_bit_length)
    ELSE Raise("ValueError", 0)

AlignmentsOf(field_types) ==
    {field_types[i].alignment_requirement : i \in 1..Len(field_types)}

\* UnionType._compute_tag_bit_length(field_types)
compute_tag_bit_length(field_types) ==
    ComputeTagBitLength(Len(field_types), AlignmentsOf(field_types))

(***************************************************************************)
(* The aggregate bit length sets (the outer padding is not applied).       *)
(***************************************************************************)
\* The pointwise sum of the sets ms[i..]
RECURSIVE SumOfSets(_, _)
SumOfSets(ms, i) ==
    IF i > Len(ms) THEN {0} ELSE {x + y : x \in ms[i], y \in SumOfSets(ms, i + 1)}

\* aggregate_bit_length_sets of a union that sums the variants as if they
\* followed one another (out += s instead of out |= s)
UnionAggregate_Sum(field_types) ==
    LET ms == [i \in 1..Len(field_types) |-> field_types[i].bit_length_set]
        out == SumOfSets(ms, 1)
        tag == compute_tag_bit_length(field_types)
    IN  IF Len(ms) = 0 THEN Return({0})
        ELSE IF Len(ms) = 1 THEN Return(ms[1])
        ELSE IF tag.raised # "none" THEN Raise(tag.raised, {})
        ELSE Return(BlsShift(out, tag.value))

\* UnionType.aggregate_bit_length_sets
UnionAggregate(field_types) ==
    LET ms == [i \in 1..Len(field_types) |-> field_types[i].bit_length_set]
        out == UNION {ms[i] : i \in 1..Len(ms)}
        tag == compute_tag_bit_length(field_types)
    IN  IF Len(ms) = 0 THEN Return({0})
        ELSE IF Len(ms) = 1 THEN Return(ms[1])
        ELSE IF tag.raised # "none" THEN Raise(tag.raised, {})
        ELSE Return(BlsShift(out, tag.value))

\* The loop without bls.pad_to_alignment(t.alignment_requirement)
RECURSIVE StructureFold_NoPadding(_, _, _)
StructureFold_NoPadding(bls, field_types, i) ==
    IF i > Len(field_types) THEN bls
    ELSE StructureFold_NoPadding(BlsAdd(bls, field_types[i].bit_length_set),
                                 field_types, i + 1)

\* The loop of StructureType.aggregate_bit_length_sets from field i on.
RECURSIVE StructureFold(_, _, _)
StructureFold(bls, field_types, i) ==
    IF i > Len(field_types) THEN bls
    ELSE StructureFold(
            BlsAdd(PadToAlignment(bls, field_types[i].alignment_requirement),
                   field_types[i].bit_length_set),
            field_types, i + 1)

\* StructureType.aggregate_bit_length_sets
StructureAggregate(field_types) == Return(StructureFold({}, field_types, 1))

\* self._aggregate_bit_length_sets(), dispatched on the class of self.
AggregateBitLengthSets(m, attributes) ==
    CASE m = "UnionType" -> UnionAggregate(FieldTypes(attributes))
      [] m = "StructureType" -> StructureAggregate(FieldTypes(attributes))
      [] OTHER -> Raise("TypeError", {})

(***************************************************************************)
(* Names: a name is a sequence of one-character strings.                   *)
(***************************************************************************)
NAME_COMPONENT_SEPARATOR == "."
Whitespace == {" "}
Digits == {"0"}
Letters == {"a", "n", "s", "A", "T", "R", "e", "q", "u", "t", "p", "o", "_"}

\* str.strip()
RECURSIVE LStrip(_)
LStrip(s) == IF s # <<>> /\ Head(s) \in Whitespace THEN LStrip(Tail(s)) ELSE s
RECURSIVE RStrip(_)
RStrip(s) == IF s # <<>> /\ s[Len(s)] \in Whitespace
             THEN RStrip(SubSeq(s, 1, Len(s) - 1)) ELSE s
Strip(s) == RStrip(LStrip(s))

\* str.split(NAME_COMPONENT_SEPARATOR): cur is the component being read.
RECURSIVE SplitFrom(_, _)
SplitFrom(s, cur) ==
    IF s = <<>> THEN <<cur>>
    ELSE IF Head(s) = NAME_COMPONENT_SEPARATOR
         THEN <<cur>> \o SplitFrom(Tail(s), <<>>)
         ELSE SplitFrom(Tail(s), Append(cur, Head(s)))
Split(s) == SplitFrom(s, <<>>)

\* check_name(component) returns without raising InvalidNameError
CheckNameOk(component) ==
    /\ component # <<>>
    /\ Head(component) \notin Digits
    /\ \A i \in 1..Len(component) : component[i] \in Letters \cup Digits

(***************************************************************************)
(* CompositeType.__init__                                                  *)
(***************************************************************************)
\* The version check
VersionValid(version) ==
    /\ 0 <= version.major /\ version.major <= MAX_VERSION_NUMBER
    /\ 0 <= version.minor /\ version.minor <= MAX_VERSION_NUMBER
    /\ version.major + version.minor > 0

\* The attribute check without the test that the name is not empty
NameCollision_AnyName(attributes) ==
    \E i, j \in 1..Len(attributes) :
        i < j /\ attributes[i].name = attributes[j].name

\* The attribute check: some attribute's non-empty name is already in used_names.
NameCollision(attributes) ==
    \E i, j \in 1..Len(attributes) :
        i < j /\ attributes[j].name # "" /\ attributes[i].name = attributes[j].name

\* The port ID check against the range of subject IDs whatever the class
PortIdValid_SubjectRange(m, fixed_port_id) ==
    \/ fixed_port_id = None
    \/ 0 <= fixed_port_id[1] /\ fixed_port_id[1] <= MAX_SUBJECT_ID

\* The port ID check
PortIdValid(m, fixed_port_id) ==
    \/ fixed_port_id = None
    \/ LET port_id == fixed_port_id[1]
       IN  IF m = "ServiceType"
           THEN 0 <= port_id /\ port_id <= MAX_SERVICE_ID
           ELSE 0 <= port_id /\ port_id <= MAX_SUBJECT_ID

\* The deprecation check that looks at the first attribute only
DependsOnDeprecated_FirstOnly(attributes) ==
    /\ attributes # <<>>
    /\ attributes[1].data_type.kind = "composite"
    /\ attributes[1].data_type.deprecated

\* The consistent deprecation check
DependsOnDeprecated(attributes) ==
    \E i \in 1..Len(attributes) :
        attributes[i].data_type.kind = "composite" /\ attributes[i].data_type.deprecated

\* minimal_extent
MinimalExtent(agg, alignment) == SetMax(PadToAlignment(agg, alignment))

\* The extent initialization that aligns first and multiplies afterwards
InitialExtent_AlignFirst(agg, alignment, extent, final) ==
    IF extent = None
    THEN IF final
         THEN MinimalExtent(agg, alignment)
         ELSE MinimalExtent(agg, alignment) * 2
    ELSE extent[1]

\* The extent initialization that does not align the doubled maximum
InitialExtent_NoPadding(agg, alignment, extent, final) ==
    IF extent = None
    THEN IF final
         THEN MinimalExtent(agg, alignment)
         ELSE SetMax(agg) * 2
    ELSE extent[1]

\* The extent initialization
InitialExtent(agg, alignment, extent, final) ==
    IF extent = None
    THEN IF final
         THEN MinimalExtent(agg, alignment)
         ELSE SetMax(PadToAlignment({SetMax(agg) * 2}, alignment))
    ELSE extent[1]

\* The extent verification without the check of the alignment
ExtentVerification_NoAlignment(ext, minimal_extent, alignment, final) ==
    IF ext < minimal_extent THEN "InvalidExtentError"
    ELSE IF final /\ ext > minimal_extent THEN "InvalidExtentError"
    ELSE "none"

\* The extent verification: the exception raised, or "none"
ExtentVerification(ext, minimal_extent, alignment, final) ==
    IF ext % alignment # 0 THEN "InvalidExtentError"
    ELSE IF ext < minimal_extent THEN "InvalidExtentError"
    ELSE IF final /\ ext > minimal_extent THEN "InvalidExtentError"
    ELSE "none"

\* The extent initialization and verification together: the exception raised
\* (max() of an empty set raises ValueError) or "none", and self._extent.
ExtentStep(m, a) ==
    LET agg == AggregateBitLengthSets(m, a.attributes)
        alignment == AlignmentRequirement(a.attributes)
    IN  IF agg.raised # "none" THEN Raise(agg.raised, 0)
        ELSE IF agg.value = {} THEN Raise("ValueError", 0)
        ELSE LET minimal_extent == MinimalExtent(agg.value, alignment)
                 ext == InitialExtent(agg.value, alignment, a.extent, a.final)
                 e == ExtentVerification(ext, minimal_extent, alignment, a.final)
             IN  IF e # "none" THEN Raise(e, ext) ELSE Return(ext)

\* CompositeType.__init__ with the deprecation check ahead of the port ID check
CompositeInit_DeprecationFirst(m, a) ==
    LET name == Strip(a.name)
    IN  IF name = <<>> THEN Raise("InvalidNameError", 0)
        ELSE IF NAME_COMPONENT_SEPARATOR \notin SeqRange(name)
             THEN Raise("InvalidNameError", 0)
        ELSE IF Len(name) > MAX_NAME_LENGTH /\ ~a.has_parent_service
             THEN Raise("InvalidNameError", 0)
        ELSE IF \E i \in 1..Len(Split(name)) : ~CheckNameOk(Split(name)[i])
             THEN Raise("InvalidNameError", 0)
        ELSE IF ~VersionValid(a.version) THEN Raise("InvalidVersionError", 0)
        ELSE IF NameCollision(a.attributes) THEN Raise("AttributeNameCollisionError", 0)
        ELSE IF ~a.deprecated /\ DependsOnDeprecated(a.attributes)
             THEN Raise("DeprecatedDependencyError", 0)
        ELSE IF ~PortIdValid(m, a.fixed_port_id) THEN Raise("InvalidFixedPortIDError", 0)
        ELSE ExtentStep(m, a)

\* CompositeType.__init__ on the arguments a, self being of class m.
CompositeInit(m, a) ==
    LET name == Strip(a.name)
    IN  IF name = <<>> THEN Raise("InvalidNameError", 0)
        ELSE IF NAME_COMPONENT_SEPARATOR \notin SeqRange(name)
             THEN Raise("InvalidNameError", 0)
        ELSE IF Len(name) > MAX_NAME_LENGTH /\ ~a.has_parent_service
             THEN Raise("InvalidNameError", 0)
        ELSE IF \E i \in 1..Len(Split(name)) : ~CheckNameOk(Split(name)[i])
             THEN Raise("InvalidNameError", 0)
        ELSE IF ~VersionValid(a.version) THEN Raise("InvalidVersionError", 0)
        ELSE IF NameCollision(a.attributes) THEN Raise("AttributeNameCollisionError", 0)
        ELSE IF ~PortIdValid(m, a.fixed_port_id) THEN Raise("InvalidFixedPortIDError", 0)
        ELSE IF ~a.deprecated /\ DependsOnDeprecated(a.attributes)
             THEN Raise("DeprecatedDependencyError", 0)
        ELSE ExtentStep(m, a)

\* UnionType.__init__ without the loop over the attributes
UnionInit_NoAttributeCheck(a) ==
    LET base == CompositeInit("UnionType", a)
        tag == compute_tag_bit_length(FieldTypes(a.attributes))
    IN  IF base.raised # "none" THEN base
        ELSE IF Len(Fields(a.attributes)) < MIN_NUMBER_OF_VARIANTS
             THEN Raise("MalformedUnionError", 0)
        ELSE IF tag.raised # "none" THEN Raise(tag.raised, 0)
        ELSE base

\* UnionType.__init__: the base constructor, then the union's own checks.
UnionInit(a) ==
    LET base == CompositeInit("UnionType", a)
        tag == compute_tag_bit_length(FieldTypes(a.attributes))
    IN  IF base.raised # "none" THEN base
        ELSE IF Len(Fields(a.attributes)) < MIN_NUMBER_OF_VARIANTS
             THEN Raise("MalformedUnionError", 0)
        ELSE IF \E i \in 1..Len(a.attributes) :
                    \/ a.attributes[i].cls = "PaddingField"
                    \/ a.attributes[i].name = ""
                    \/ a.attributes[i].data_type.kind = "void"
             THEN Raise("MalformedUnionError", 0)
        ELSE IF tag.raised # "none" THEN Raise(tag.raised, 0)
        ELSE base

\* m(name=..., version=..., attributes=..., ...): the exception raised, or
\* "none" and the extent of the new object.
Construct(m, a) ==
    IF m = "UnionType" THEN UnionInit(a) ELSE CompositeInit(m, a)

\* The object a successful constructor call leaves behind.
NewObject(m, a, ext) ==
    [meta |-> m, name |-> Strip(a.name), version |-> a.version,
     attributes |-> a.attributes, final |-> a.final, deprecated |-> a.deprecated,
     fixed_port_id |-> a.fixed_port_id, extent |-> ext]

NoObject == [meta |-> "None"]

(***************************************************************************)
(* Derived properties of a constructed composite type t.                   *)
(***************************************************************************)
\* delimiter_header_type of the default width whatever the alignment requirement
DelimiterHeaderBitLength_Default(t) ==
    IF ~t.final THEN Some(DEFAULT_DELIMITER_HEADER_BIT_LENGTH) ELSE None

\* CompositeType.delimiter_header_type: its bit length, None for a final type
DelimiterHeaderBitLength(t) ==
    IF ~t.final
    THEN Some(SetMax({DEFAULT_DELIMITER_HEADER_BIT_LENGTH,
                      AlignmentRequirement(t.attributes)}))
    ELSE None

\* bit_length_set that leaves out the delimiter header of a non-final type
BitLengthSetOf_NoHeader(t) ==
    IF t.final
    THEN PadToAlignment(AggregateBitLengthSets(t.meta, t.attributes).value,
                        AlignmentRequirement(t.attributes))
    ELSE PadToAlignment(0..t.extent, AlignmentRequirement(t.attributes))

\* CompositeType.bit_length_set
BitLengthSetOf(t) ==
    IF t.final
    THEN PadToAlignment(AggregateBitLengthSets(t.meta, t.attributes).value,
                        AlignmentRequirement(t.attributes))
    ELSE BlsShift(PadToAlignment(0..t.extent, AlignmentRequirement(t.attributes)),
                  DelimiterHeaderBitLength(t)[1])

\* UnionType.tag_field_type.bit_length
TagBitLength(t) == compute_tag_bit_length(FieldTypes(t.attributes)).value

\* A constructed composite type seen as the data type of a field.
AsDataType(t) ==
    DataType("composite", AlignmentRequirement(t.attributes), BitLengthSetOf(t),
             t.deprecated)

(***************************************************************************)
(* The generators iterate_fields_with_offsets.  A generator g holds the    *)
(* argument base_offset it was created with, its local base_offset, and    *)
(* index, the position in self.fields of the field it last yielded.        *)
(***************************************************************************)
NoGenerator == [state |-> "none", arg |-> None, base_offset |-> {}, index |-> 0]

\* t.iterate_fields_with_offsets(base): no code of the body runs yet.
NewGenerator(base) == [state |-> "created", arg |-> base, base_offset |-> {}, index |-> 0]

\* base_offset or v: None and the empty BitLengthSet are falsy.
BaseOr(base, v) == IF base = None \/ base[1] = {} THEN v ELSE base[1]

\* StructureType.iterate_fields_with_offsets that pads the running offset to
\* the alignment of the field just passed, not of the field to be yielded
StructureResume_PadPrevious(t, g) ==
    LET fields == Fields(t.attributes)
        offset == IF g.state = "created"
                  THEN PadToAlignment(BaseOr(g.arg, {0}), AlignmentRequirement(t.attributes))
                  ELSE BlsAdd(g.base_offset, fields[g.index].data_type.bit_length_set)
        next == g.index + 1
    IN  IF next > Len(fields)
        THEN [gen |-> [g EXCEPT !.state = "finished", !.base_offset = offset],
              out |-> None]
        ELSE LET padded == IF g.index = 0 THEN offset
                           ELSE PadToAlignment(offset,
                                    fields[g.index].data_type.alignment_requirement)
             IN  [gen |-> [g EXCEPT !.state = "suspended", !.base_offset = padded,
                                    !.index = next],
                  out |-> Some([field |-> next, offset |-> padded])]

\* StructureType.iterate_fields_with_offsets: one next() on g.  The result
\* is the generator afterwards and what it yielded (None at StopIteration).
StructureResume(t, g) ==
    LET fields == Fields(t.attributes)
        offset == IF g.state = "created"
                  THEN PadToAlignment(BaseOr(g.arg, {0}), AlignmentRequirement(t.attributes))
                  ELSE BlsAdd(g.base_offset, fields[g.index].data_type.bit_length_set)
        next == g.index + 1
    IN  IF next > Len(fields)
        THEN [gen |-> [g EXCEPT !.state = "finished", !.base_offset = offset],
              out |-> None]
        ELSE LET padded == PadToAlignment(offset, fields[next].data_type.alignment_requirement)
             IN  [gen |-> [g EXCEPT !.state = "suspended", !.base_offset = padded,
                                    !.index = next],
                  out |-> Some([field |-> next, offset |-> padded])]

\* UnionType.iterate_fields_with_offsets that adds the tag inside the loop
UnionResume_TagPerField(t, g) ==
    LET fields == Fields(t.attributes)
        base == IF g.state = "created"
                THEN PadToAlignment(BaseOr(g.arg, {0}), AlignmentRequirement(t.attributes))
                ELSE g.base_offset
        offset == BlsShift(base, TagBitLength(t))
        next == g.index + 1
    IN  IF next > Len(fields)
        THEN [gen |-> [g EXCEPT !.state = "finished", !.base_offset = base],
              out |-> None]
        ELSE IF ~IsAlignedAt(offset, fields[next].data_type.alignment_requirement)
        THEN [gen |-> [g EXCEPT !.state = "AssertionError", !.base_offset = offset],
              out |-> None]
        ELSE [gen |-> [g EXCEPT !.state = "suspended", !.base_offset = offset,
                                !.index = next],
              out |-> Some([field |-> next, offset |-> offset])]

\* UnionType.iterate_fields_with_offsets that leaves the tag out of the offset
UnionResume_NoTag(t, g) ==
    LET fields == Fields(t.attributes)
        offset == IF g.state = "created"
                  THEN PadToAlignment(BaseOr(g.arg, {0}),
                                      AlignmentRequirement(t.attributes))
                  ELSE g.base_offset
        next == g.index + 1
    IN  IF next > Len(fields)
        THEN [gen |-> [g EXCEPT !.state = "finished", !.base_offset = offset],
              out |-> None]
        ELSE [gen |-> [g EXCEPT !.state = "suspended", !.base_offset = offset,
                                !.index = next],
              out |-> Some([field |-> next, offset |-> offset])]

\* UnionType.iterate_fields_with_offsets: one next() on g.
UnionResume(t, g) ==
    LET fields == Fields(t.attributes)
        offset == IF g.state = "created"
                  THEN BlsShift(PadToAlignment(BaseOr(g.arg, {0}),
                                               AlignmentRequirement(t.attributes)),
                                TagBitLength(t))
                  ELSE g.base_offset
        next == g.index + 1
    IN  IF next > Len(fields)
        THEN [gen |-> [g EXCEPT !.state = "finished", !.base_offset = offset],
              out |-> None]
        ELSE IF ~IsAlignedAt(offset, fields[next].data_type.alignment_requirement)
        THEN [gen |-> [g EXCEPT !.state = "AssertionError", !.base_offset = offset],
              out |-> None]
        ELSE [gen |-> [g EXCEPT !.state = "suspended", !.base_offset = offset,
                                !.index = next],
              out |-> Some([field |-> next, offset |-> offset])]

GeneratorResume(t, g) ==
    IF t.meta = "UnionType" THEN UnionResume(t, g) ELSE StructureResume(t, g)

(***************************************************************************)
(* BitLengthSet objects.  A BitLengthSet is mutable (pad_to_alignment, +=   *)
(* and |= change it in place), so who shares an object matters: heap[r] is  *)
(* the value of object r.  cached_property tells which of the two imports   *)
(* of lines 18-21 succeeded; cache is the object functools.cached_property  *)
(* has stored for bit_length_set (0: none); held is the object the caller   *)
(* was handed last; reads are the values handed out by bit_length_set;      *)
(* base is the generator's local base_offset; refs are the objects yielded. *)
(***************************************************************************)
NewMemory(c) ==
    [cached_property |-> c, heap |-> <<>>, cache |-> 0, held |-> 0,
     reads |-> <<>>, base |-> 0, refs |-> <<>>, mutations |-> 0, iterations |-> 0]

\* t.bit_length_set: functools.cached_property runs the getter once and then
\* returns the stored object; a plain property runs the getter on every read.
GetBitLengthSet(mm, t) ==
    IF mm.cached_property /\ mm.cache # 0
    THEN [mm EXCEPT !.held = mm.cache, !.reads = Append(@, mm.heap[mm.cache])]
    ELSE LET obj == Len(mm.heap) + 1
             value == BitLengthSetOf(t)
         IN  [mm EXCEPT !.heap = Append(@, value),
                        !.cache = IF mm.cached_property THEN obj ELSE 0,
                        !.held = obj,
                        !.reads = Append(@, value)]

\* yield f, base_offset: the generator's own object is handed out
OffsetYielded_NoCopy(heap, base) == [heap |-> heap, ref |-> base]

\* yield f, BitLengthSet(base_offset): a new object of the same value
OffsetYielded(heap, base) == [heap |-> Append(heap, heap[base]), ref |-> Len(heap) + 1]

\* One next() on the generator g of t whose local base_offset is the object
\* mm.base: the body runs on the value the object has now.
ResumeInMemory(mm, t, g) ==
    LET r == GeneratorResume(t, IF g.state = "created" THEN g
                                ELSE [g EXCEPT !.base_offset = mm.heap[mm.base]])
        base == IF g.state = "created" THEN Len(mm.heap) + 1 ELSE mm.base
        heap == IF g.state = "created" THEN Append(mm.heap, r.gen.base_offset)
                ELSE [mm.heap EXCEPT ![base] = r.gen.base_offset]
        y == OffsetYielded(heap, base)
    IN  IF r.out = None
        THEN [gen |-> r.gen, out |-> None, mem |-> [mm EXCEPT !.heap = heap, !.base = base]]
        ELSE [gen |-> r.gen,
              out |-> Some([field |-> r.out[1].field, offset |-> y.heap[y.ref]]),
              mem |-> [mm EXCEPT !.heap = y.heap, !.base = base, !.held = y.ref,
                                 !.refs = Append(@, y.ref)]]

\* What a caller does to a BitLengthSet in place
Mutations == {"pad_to_alignment", "+=", "|="}
Mutate(op, s) ==
    CASE op = "pad_to_alignment" -> PadToAlignment(s, 16)
      [] op = "+=" -> BlsAdd(s, {8})
      [] op = "|=" -> s \cup {1}

(***************************************************************************)
(* The inputs: the serializable types fields refer to.                     *)
(***************************************************************************)
\* UnsignedIntegerType(16), BooleanType
U16 == DataType("primitive", 1, {16}, FALSE)
Bool == DataType("primitive", 1, {1}, FALSE)
\* FixedLengthArrayType(VariableLengthArrayType(uint8, 2), 2)
Outer == DataType("array", 1, {16, 24, 32, 40, 48}, FALSE)
\* VoidType(3)
Void3 == DataType("void", 1, {3}, FALSE)
\* Types of a greater alignment requirement, which alignment_requirement allows for
Aligned16 == DataType("array", 16, {16, 32}, FALSE)
Aligned32 == DataType("primitive", 32, {32}, FALSE)
Aligned64 == DataType("primitive", 64, {64}, FALSE)

Version(major, minor) == [major |-> major, minor |-> minor]

Args(name, version, attributes, extent, final, deprecated, fixed_port_id, parent) ==
    [name |-> name, version |-> version, attributes |-> attributes, extent |-> extent,
     final |-> final, deprecated |-> deprecated, fixed_port_id |-> fixed_port_id,
     has_parent_service |-> parent]

NoArgs == Args(<<>>, Version(0, 0), <<>>, None, FALSE, FALSE, None, FALSE)

\* 'ns.T'
TypeName == <<"n", "s", ".", "T">>

\* The arguments of the unit tests' try_struct_fields / try_union_fields
TestArgs(attributes, extent, final) ==
    Args(TypeName, Version(0, 1), attributes, extent, final, FALSE, None, FALSE)

\* Nested composite types, constructed by the constructors above.
InnerFinalArgs == TestArgs(<<Field(U16, "x"), Field(Bool, "y")>>, None, TRUE)
InnerFinal ==
    AsDataType(NewObject("StructureType", InnerFinalArgs,
                         Construct("StructureType", InnerFinalArgs).value))
InnerDelimitedArgs == TestArgs(<<Field(Bool, "x")>>, None, FALSE)
InnerDelimited ==
    AsDataType(NewObject("StructureType", InnerDelimitedArgs,
                         Construct("StructureType", InnerDelimitedArgs).value))

\* What an attribute of the type under construction may be, before naming.
AttributeChoices ==
    {Field(t, "") : t \in {U16, Bool, Outer, Aligned16, Aligned32, Aligned64,
                               InnerFinal, InnerDelimited}}
    \cup {PaddingField(Void3), Constant(U16, "")}

\* Attribute i is named after its position, as in the unit tests ('_%d' % i).
AttributeNames == <<"a", "b", "c", "d", "e">>
Named(choices) ==
    [i \in 1..Len(choices) |->
        IF choices[i].cls = "PaddingField" THEN choices[i]
        ELSE [choices[i] EXCEPT !.name = AttributeNames[i]]]

AttributeLists ==
    {Named(c) : c \in UNION {[1..n -> AttributeChoices] : n \in 0..MaxAttributes}}

ExplicitExtents == {4 * i : i \in 0..MaxExtentQuads}
ExtentArguments == {None} \cup {Some(e) : e \in ExplicitExtents}

BaseOffsets == {None, Some({}), Some({1, 16})}

(***************************************************************************)
(* The state machine.                                                      *)
(***************************************************************************)
Init ==
    /\ pc = "init"
    /\ meta = "None"
    /\ args = NoArgs
    /\ self = NoObject
    /\ error = "none"
    /\ gen = NoGenerator
    /\ yielded = <<>>
    /\ tag_call = [n |-> 0, aligns |-> {}, result |-> Return(0)]
    /\ mem = NewMemory(TRUE)
    /\ item = None

\* A constructor call meta(**a)
Constructed(m, a) ==
    LET r == Construct(m, a)
    IN  /\ meta' = m
        /\ args' = a
        /\ error' = r.raised
        /\ self' = IF r.raised = "none" THEN NewObject(m, a, r.value) ELSE NoObject
        /\ pc' = IF r.raised = "none" THEN "constructed" ELSE "failed"
        /\ UNCHANGED <<gen, yielded, tag_call, mem, item>>

NewStructureType ==
    /\ pc = "init"
    /\ \E attributes \in AttributeLists, extent \in ExtentArguments, final \in BOOLEAN :
        Constructed("StructureType", TestArgs(attributes, extent, final))

NewUnionType ==
    /\ pc = "init"
    /\ \E attributes \in AttributeLists, extent \in ExtentArguments, final \in BOOLEAN :
        Constructed("UnionType", TestArgs(attributes, extent, final))

Next == NewStructureType \/ NewUnionType

Spec == Init /\ [][Next]_vars

(***************************************************************************)
(* The layout of the fields: constructions without an explicit extent, of  *)
(* longer attribute lists, and the generators run on the result.           *)
(***************************************************************************)
LayoutChoices ==
    {Field(t, "") : t \in {U16, Bool, Outer, Aligned16, InnerFinal}}
    \cup {PaddingField(Void3), Constant(U16, "")}

LayoutLists ==
    {Named(c) : c \in UNION {[1..n -> LayoutChoices] : n \in 0..MaxFields}}

LayoutStructureType ==
    /\ pc = "init"
    /\ \E attributes \in LayoutLists, final \in BOOLEAN :
          Constructed("StructureType", TestArgs(attributes, None, final))

LayoutUnionType ==
    /\ pc = "init"
    /\ \E attributes \in LayoutLists, final \in BOOLEAN :
          Constructed("UnionType", TestArgs(attributes, None, final))

\* self.iterate_fields_with_offsets(base_offset)
IterateFieldsWithOffsets ==
    /\ pc = "constructed"
    /\ gen.state = "none"
    /\ \E base \in BaseOffsets : gen' = NewGenerator(base)
    /\ UNCHANGED <<pc, meta, args, self, error, yielded, tag_call, mem, item>>

\* next() on the generator
Next_ ==
    /\ gen.state \in {"created", "suspended"}
    /\ LET r == GeneratorResume(self, gen)
       IN  /\ gen' = r.gen
           /\ yielded' = IF r.out = None THEN yielded ELSE Append(yielded, r.out[1])
    /\ UNCHANGED <<pc, meta, args, self, error, tag_call, mem, item>>

NextOffsets ==
    LayoutStructureType \/ LayoutUnionType \/ IterateFieldsWithOffsets \/ Next_

SpecOffsets == Init /\ [][NextOffsets]_vars

(***************************************************************************)
(* Direct calls of UnionType._compute_tag_bit_length.                      *)
(***************************************************************************)
\* The alignment requirements serializable types have: powers of two, one
\* (no alignment) for primitives, a byte or more for composites.
ContractAlignments == {1, 8, 16, 32, 64}

\* Counts around the values where the tag widens, and those of the unit tests
LargeVariantCounts == {255, 256, 257, 258, 2000, 65535, 65536, 65537, 2000000}
VariantCounts == (MIN_NUMBER_OF_VARIANTS..MaxVariants) \cup LargeVariantCounts

\* The sets of alignment requirements found in a list of variant types.
VariantAlignments ==
    {s \in SUBSET ContractAlignments : Cardinality(s) \in {1, 2}}

\* UnionType._compute_tag_bit_length(field_types), field_types being n types
\* whose alignment requirements are aligns
CallComputeTagBitLength ==
    /\ pc = "init"
    /\ \E n \in VariantCounts, aligns \in VariantAlignments :
          tag_call' = [n |-> n, aligns |-> aligns,
                       result |-> ComputeTagBitLength(n, aligns)]
    /\ pc' = "tag"
    /\ UNCHANGED <<meta, args, self, error, gen, yielded, mem, item>>

NextTag == CallComputeTagBitLength

SpecTag == Init /\ [][NextTag]_vars

(***************************************************************************)
(* Constructor calls that differ in the names and the types of their       *)
(* attributes, in the deprecation flag, and in whether the name, the       *)
(* version and the port ID are valid.                                      *)
(***************************************************************************)
\* A deprecated nested type
InnerDeprecatedArgs ==
    Args(TypeName, Version(0, 1), <<Field(U16, "x")>>, None, TRUE, TRUE, None, FALSE)
InnerDeprecated ==
    AsDataType(NewObject("StructureType", InnerDeprecatedArgs,
                         Construct("StructureType", InnerDeprecatedArgs).value))

ValidationChoices ==
    {Field(U16, "a"), Field(U16, "b"), Constant(U16, "a"), Constant(U16, "A"),
     PaddingField(Void3), Field(InnerDeprecated, "a"), Field(InnerDeprecated, "d"),
     Field(InnerFinal, "b")}

ValidationLists == UNION {[1..n -> ValidationChoices] : n \in 0..MaxAttributes}

\* 'ns.T' and 'T', which names no root namespace
ValidationNames == {TypeName, <<"T">>}
ValidationVersions == {Version(0, 1), Version(0, 0)}
ValidationPortIds ==
    {None, Some(-1), Some(0), Some(MAX_SERVICE_ID + 1), Some(MAX_SUBJECT_ID),
     Some(MAX_SUBJECT_ID + 1)}

ValidationArguments ==
    {Args(name, version, attributes, None, TRUE, deprecated, fixed_port_id, FALSE) :
        name \in ValidationNames, version \in ValidationVersions,
        attributes \in ValidationLists, deprecated \in BOOLEAN,
        fixed_port_id \in ValidationPortIds}

ValidatedStructureType ==
    /\ pc = "init"
    /\ \E a \in ValidationArguments : Constructed("StructureType", a)

ValidatedUnionType ==
    /\ pc = "init"
    /\ \E a \in ValidationArguments : Constructed("UnionType", a)

NextValidation == ValidatedStructureType \/ ValidatedUnionType

SpecValidation == Init /\ [][NextValidation]_vars

(***************************************************************************)
(* Service types.                                                          *)
(***************************************************************************)
\* ServiceType.SchemaParams
SchemaParams(attributes, extent, is_union, is_final) ==
    [attributes |-> attributes, extent |-> extent, is_union |-> is_union,
     is_final |-> is_final]

ServiceArgs(name, version, request_params, response_params, deprecated, fixed_port_id) ==
    [name |-> name, version |-> version, request_params |-> request_params,
     response_params |-> response_params, deprecated |-> deprecated,
     fixed_port_id |-> fixed_port_id]

\* '.Request' and '.Response'
RequestSuffix == <<".", "R", "e", "q", "u", "e", "s", "t">>
ResponseSuffix == <<".", "R", "e", "s", "p", "o", "n", "s", "e">>

SchemaMeta(params) == IF params.is_union THEN "UnionType" ELSE "StructureType"

\* The arguments ServiceType.__init__ hands to the constructor of a half
SchemaArgs(a, params, suffix) ==
    Args(a.name \o suffix, a.version, params.attributes, params.extent,
         params.is_final, a.deprecated, None, TRUE)

\* self._request_type / self._response_type once constructed with extent ext
SchemaType(a, params, suffix, ext) ==
    NewObject(SchemaMeta(params), SchemaArgs(a, params, suffix), ext)
    @@ [parent_service |-> Strip(a.name), source_file_path |-> <<>>]

\* container_attributes
ContainerAttributes(request_type, response_type) ==
    <<Field(AsDataType(request_type), "request"),
      Field(AsDataType(response_type), "response")>>

\* The arguments of super(ServiceType, self).__init__
ContainerArgs(a, request_type, response_type) ==
    Args(a.name, a.version, ContainerAttributes(request_type, response_type),
         None, TRUE, a.deprecated, a.fixed_port_id, FALSE)

\* The service a successful constructor call leaves behind
NewService(a, request_type, response_type, ext) ==
    NewObject("ServiceType", ContainerArgs(a, request_type, response_type), ext)
    @@ [request_type |-> request_type, response_type |-> response_type,
        source_file_path |-> <<>>]

\* ServiceType.iterate_fields_with_offsets(base_offset)
ServiceIterateFieldsWithOffsets(t, base) == Raise("TypeError", <<>>)

\* 'a' * 48 + '.T' of the unit test, 50 characters, and a name of 51
LongName == [i \in 1..48 |-> "a"] \o <<".", "T">>
TooLongName == <<"a">> \o LongName
ServiceNames == {TypeName, LongName, TooLongName, <<"T">>}
ServiceVersions == {Version(0, 1), Version(0, 0)}
ServicePortIds ==
    {None, Some(-1), Some(0), Some(MAX_SERVICE_ID), Some(MAX_SERVICE_ID + 1),
     Some(MAX_SUBJECT_ID)}
\* Final halves without an extent, and halves that are not final with one of 16 bits
SchemaChoices ==
    {SchemaParams(attributes, shape[1], is_union, shape[2]) :
        attributes \in {<<>>, <<Field(U16, "a")>>, <<Field(Bool, "a"), Field(U16, "b")>>},
        shape \in {<<None, TRUE>>, <<Some(16), FALSE>>},
        is_union \in BOOLEAN}
FinalSchemaChoices ==
    {params \in SchemaChoices :
        params.is_final /\ ~params.is_union /\ Len(params.attributes) <= 1}

\* ServiceType(name=..., version=..., request_params=..., ...): __init__ is
\* entered, self being the service under construction.
NewServiceType ==
    /\ pc = "init"
    /\ \E name \in ServiceNames, version \in ServiceVersions,
          request_params \in SchemaChoices, response_params \in FinalSchemaChoices,
          deprecated \in BOOLEAN, fixed_port_id \in ServicePortIds :
          args' = ServiceArgs(name, version, request_params, response_params,
                              deprecated, fixed_port_id)
    /\ meta' = "ServiceType"
    /\ self' = [meta |-> "ServiceType"]
    /\ pc' = "request"
    /\ UNCHANGED <<error, gen, yielded, tag_call, mem, item>>

\* self._request_type = request_meta_type(name=name + '.Request', ...)
ConstructRequestType ==
    /\ pc = "request"
    /\ LET r == Construct(SchemaMeta(args.request_params),
                          SchemaArgs(args, args.request_params, RequestSuffix))
       IN  /\ error' = r.raised
           /\ pc' = IF r.raised = "none" THEN "response" ELSE "failed"
           /\ self' = IF r.raised # "none" THEN NoObject
                      ELSE self @@ [request_type |->
                               SchemaType(args, args.request_params, RequestSuffix, r.value)]
    /\ UNCHANGED <<meta, args, gen, yielded, tag_call, mem, item>>

\* self._response_type = response_meta_type(name=name + '.Response', ...)
ConstructResponseType ==
    /\ pc = "response"
    /\ LET r == Construct(SchemaMeta(args.response_params),
                          SchemaArgs(args, args.response_params, ResponseSuffix))
       IN  /\ error' = r.raised
           /\ pc' = IF r.raised = "none" THEN "container" ELSE "failed"
           /\ self' = IF r.raised # "none" THEN NoObject
                      ELSE self @@ [response_type |->
                               SchemaType(args, args.response_params, ResponseSuffix, r.value)]
    /\ UNCHANGED <<meta, args, gen, yielded, tag_call, mem, item>>

\* super(ServiceType, self).__init__(name=name, ..., extent=None, final=True, ...)
ConstructContainer ==
    /\ pc = "container"
    /\ LET r == CompositeInit("ServiceType",
                              ContainerArgs(args, self.request_type, self.response_type))
       IN  /\ error' = r.raised
           /\ pc' = IF r.raised = "none" THEN "constructed" ELSE "failed"
           /\ self' = IF r.raised # "none" THEN NoObject
                      ELSE NewService(args, self.request_type, self.response_type, r.value)
    /\ UNCHANGED <<meta, args, gen, yielded, tag_call, mem, item>>

NextService ==
    \/ NewServiceType \/ ConstructRequestType \/ ConstructResponseType
    \/ ConstructContainer

SpecService == Init /\ [][NextService]_vars

\* Messages and services side by side
NextPorts == NextValidation \/ NextService

SpecPorts == Init /\ [][NextPorts]_vars

(***************************************************************************)
(* Attribute lookup by name, CompositeType.__getitem__.                    *)
(***************************************************************************)
AttributesByName_WithPadding(attributes) ==
    [n \in {attributes[i].name : i \in DOMAIN attributes} |->
        attributes[SetMax({i \in DOMAIN attributes : attributes[i].name = n})]]

\* The dict comprehension of __init__: one entry per name of an attribute
\* that is no padding field, the last attribute of a name winning.
AttributesByName(attributes) ==
    LET named == {i \in DOMAIN attributes : attributes[i].cls # "PaddingField"}
    IN  [n \in {attributes[i].name : i \in named} |->
            attributes[SetMax({i \in named : attributes[i].name = n})]]

\* self._attributes_by_name[attribute_name]
GetItem(t, attribute_name) ==
    LET attributes_by_name == AttributesByName(t.attributes)
    IN  IF attribute_name \in DOMAIN attributes_by_name
        THEN Return(attributes_by_name[attribute_name])
        ELSE Raise("KeyError", attribute_name)

\* The names looked up: names of attributes, names of none, the empty name.
LookupNames == {"a", "b", "A", "d", "c", ""}

Lookup ==
    /\ pc = "constructed"
    /\ \E attribute_name \in LookupNames :
          item' = Some([attribute_name |-> attribute_name,
                        result |-> GetItem(self, attribute_name)])
    /\ UNCHANGED <<pc, meta, args, self, error, gen, yielded, tag_call, mem>>

NextLookup == NextValidation \/ Lookup

SpecLookup == Init /\ [][NextLookup]_vars

(***************************************************************************)
(* Constructor calls that violate several checks at once.                  *)
(***************************************************************************)
\* No extent, one no multiple of any alignment, and a multiple of all
OrderExtents == {None, Some(4), Some(64)}
OrderPortIds == {None, Some(-1)}

OrderArguments ==
    {Args(name, version, attributes, extent, final, deprecated, fixed_port_id, FALSE) :
        name \in ValidationNames, version \in ValidationVersions,
        attributes \in ValidationLists, extent \in OrderExtents, final \in BOOLEAN,
        deprecated \in BOOLEAN, fixed_port_id \in OrderPortIds}

OrderedStructureType ==
    /\ pc = "init"
    /\ \E a \in OrderArguments : Constructed("StructureType", a)

OrderedUnionType ==
    /\ pc = "init"
    /\ \E a \in OrderArguments : Constructed("UnionType", a)

NextOrder == OrderedStructureType \/ OrderedUnionType

SpecOrder == Init /\ [][NextOrder]_vars

(***************************************************************************)
(* Callers that mutate the sets they are handed.                           *)
(***************************************************************************)
AliasChoices == {Field(t, "") : t \in {Bool, Aligned16}}
AliasLists ==
    {Named(c) : c \in UNION {[1..n -> AliasChoices] : n \in 1..MaxAttributes}}

\* Either import of lines 18-21 may have succeeded.
InitAlias ==
    /\ pc = "init"
    /\ meta = "None"
    /\ args = NoArgs
    /\ self = NoObject
    /\ error = "none"
    /\ gen = NoGenerator
    /\ yielded = <<>>
    /\ tag_call = [n |-> 0, aligns |-> {}, result |-> Return(0)]
    /\ mem \in {NewMemory(c) : c \in BOOLEAN}
    /\ item = None

AliasStructureType ==
    /\ pc = "init"
    /\ \E attributes \in AliasLists, final \in BOOLEAN :
          Constructed("StructureType", TestArgs(attributes, None, final))

AliasUnionType ==
    /\ pc = "init"
    /\ \E attributes \in AliasLists, final \in BOOLEAN :
          Constructed("UnionType", TestArgs(attributes, None, final))

\* x = self.bit_length_set
ReadBitLengthSet ==
    /\ pc = "constructed"
    /\ Len(mem.reads) < MaxReads
    /\ mem' = GetBitLengthSet(mem, self)
    /\ UNCHANGED <<pc, meta, args, self, error, gen, yielded, tag_call, item>>

\* A type that has self as the type of a field computes its own set: it
\* reads self.bit_length_set and keeps no reference to the object.
ReadByContainingType ==
    /\ pc = "constructed"
    /\ Len(mem.reads) < MaxReads
    /\ mem' = [GetBitLengthSet(mem, self) EXCEPT !.held = mem.held]
    /\ UNCHANGED <<pc, meta, args, self, error, gen, yielded, tag_call, item>>

\* The caller changes in place the set it was handed last.
MutateHeld ==
    /\ mem.held # 0
    /\ mem.mutations < MaxMutations
    /\ \E op \in Mutations :
          mem' = [mem EXCEPT !.heap[mem.held] = Mutate(op, @), !.mutations = @ + 1]
    /\ UNCHANGED <<pc, meta, args, self, error, gen, yielded, tag_call, item>>

\* self.iterate_fields_with_offsets(base_offset), anew once a generator is exhausted
AliasIterate ==
    /\ pc = "constructed"
    /\ gen.state \in {"none", "finished"}
    /\ mem.iterations < MaxIterations
    /\ \E base \in {None, Some({1, 16})} : gen' = NewGenerator(base)
    /\ yielded' = <<>>
    /\ mem' = [mem EXCEPT !.base = 0, !.refs = <<>>, !.iterations = @ + 1]
    /\ UNCHANGED <<pc, meta, args, self, error, tag_call, item>>

\* next() on the generator
AliasNext ==
    /\ gen.state \in {"created", "suspended"}
    /\ LET r == ResumeInMemory(mem, self, gen)
       IN  /\ gen' = r.gen
           /\ mem' = r.mem
           /\ yielded' = IF r.out = None THEN yielded ELSE Append(yielded, r.out[1])
    /\ UNCHANGED <<pc, meta, args, self, error, tag_call, item>>

\* Callers of bit_length_set
NextAlias ==
    \/ AliasStructureType \/ AliasUnionType
    \/ ReadBitLengthSet \/ ReadByContainingType \/ MutateHeld

SpecAlias == InitAlias /\ [][NextAlias]_vars

\* Consumers of iterate_fields_with_offsets
NextYield ==
    \/ AliasStructureType \/ AliasUnionType
    \/ AliasIterate \/ AliasNext \/ MutateHeld

SpecYield == Init /\ [][NextYield]_vars

(***************************************************************************)
(* Properties.                                                             *)
(***************************************************************************)
\* The unpadded aggregate bit length set of the constructed type
SelfAggregate == AggregateBitLengthSets(self.meta, self.attributes).value
SelfAlignment == AlignmentRequirement(self.attributes)
PadUp(x, a) == ((x + a - 1) \div a) * a

\* C1: every successfully constructed StructureType or UnionType has an
\* alignment_requirement that is a positive multiple of 8, an extent that is
\* a multiple of it, and an extent no smaller than the largest element of
\* the aggregate bit length set padded to the alignment_requirement.
C1_ExtentAligned ==
    pc = "constructed" =>
        /\ SelfAlignment > 0
        /\ SelfAlignment % 8 = 0
        /\ self.extent % SelfAlignment = 0
        /\ \A x \in SelfAggregate : self.extent >= PadUp(x, SelfAlignment)

\* A non-final type of alignment 16 built with an explicit extent above the minimum
C1_Witness ==
    /\ pc = "constructed"
    /\ ~self.final
    /\ args.extent # None
    /\ SelfAlignment = 16
    /\ \A x \in SelfAggregate : self.extent > PadUp(x, SelfAlignment)
    /\ Cardinality(SelfAggregate) > 1

\* C3: a non-final type constructed without an explicit extent has the
\* extent pad(2 * max(unpadded aggregate), alignment_requirement): doubled
\* first, aligned afterwards.
C3_DefaultExtent ==
    (pc = "constructed" /\ ~self.final /\ args.extent = None) =>
        /\ \E m \in SelfAggregate :
              /\ \A x \in SelfAggregate : x <= m
              /\ self.extent = PadUp(2 * m, SelfAlignment)

\* A default extent that is not twice the minimal extent
C3_Witness ==
    /\ pc = "constructed"
    /\ ~self.final
    /\ args.extent = None
    /\ \E m \in SelfAggregate :
          /\ \A x \in SelfAggregate : x <= m
          /\ self.extent # 2 * PadUp(m, SelfAlignment)
          /\ self.extent > 0

\* C7: for k >= 2 variants whose alignment requirements are those of
\* serializable types, _compute_tag_bit_length returns a width in
\* {8, 16, 32, 64}: its assertion does not fail.
C7_TagWidthInSet ==
    pc = "tag" =>
        /\ tag_call.result.raised = "none"
        /\ tag_call.result.value \in {8, 16, 32, 64}

\* A call with more than 256 variants, none aligned beyond a byte: width 16
C7_Witness ==
    /\ pc = "tag"
    /\ tag_call.n > 256
    /\ tag_call.aligns \subseteq {1, 8}
    /\ tag_call.result = Return(16)

\* C8: the tag width does not decrease with the number of variants: of two
\* lists of k1 <= k2 variants (both >= 2) with the same largest alignment
\* requirement, the longer has a tag at least as wide.
C8_TagWidthMonotonic ==
    pc = "tag" =>
        \A k1 \in VariantCounts, aligns1 \in VariantAlignments :
            (k1 <= tag_call.n /\ SetMax(aligns1) = SetMax(tag_call.aligns)) =>
                /\ ComputeTagBitLength(k1, aligns1).raised = "none"
                /\ ComputeTagBitLength(k1, aligns1).value <= tag_call.result.value

\* A call whose tag is wider than that of a shorter list of the same alignment
C8_Witness ==
    /\ pc = "tag"
    /\ tag_call.n = 65537
    /\ tag_call.result = Return(32)
    /\ ComputeTagBitLength(65536, tag_call.aligns) = Return(16)
    /\ ComputeTagBitLength(256, tag_call.aligns) = Return(8)

\* The arguments other than the extent are valid: always so for a structure;
\* a union has two variants or more, none of them padding, unnamed or void.
OtherArgumentsValid ==
    /\ pc \in {"constructed", "failed"}
    /\ meta = "UnionType" =>
          /\ Len(Fields(args.attributes)) >= MIN_NUMBER_OF_VARIANTS
          /\ \A i \in 1..Len(args.attributes) :
                /\ args.attributes[i].cls # "PaddingField"
                /\ args.attributes[i].name # ""
                /\ args.attributes[i].data_type.kind # "void"

\* The aggregate bit length set of the arguments, {0} when there is no field.
ArgsAggregate ==
    IF Fields(args.attributes) = <<>> THEN {0}
    ELSE AggregateBitLengthSets(meta, args.attributes).value

\* The minimal extent of the arguments: the largest element of the aggregate
\* bit length set padded to the alignment requirement.
ArgsMinimalExtent ==
    SetMax({PadUp(x, AlignmentRequirement(args.attributes)) : x \in ArgsAggregate})

\* C2 as stated: for final=True, a successful construction has the extent
\* max(padded aggregate); an explicit extent other than that value fails with
\* InvalidExtentError; no extent, or exactly that value, succeeds.
C2_FinalExtent ==
    (OtherArgumentsValid /\ args.final) =>
        /\ error = "none" => self.extent = ArgsMinimalExtent
        /\ args.extent \notin {None, Some(ArgsMinimalExtent)} => error = "InvalidExtentError"
        /\ args.extent \in {None, Some(ArgsMinimalExtent)} => error = "none"

\* C2 on the types that have a field at least
C2_FinalExtentOfNonEmpty ==
    Fields(args.attributes) # <<>> => C2_FinalExtent

\* C4 as stated: for final=False and an explicit extent E, construction
\* fails with InvalidExtentError exactly if E is no multiple of the alignment
\* requirement or E is below the minimal extent; otherwise it succeeds with
\* extent E.
C4_ExplicitExtent ==
    (OtherArgumentsValid /\ ~args.final /\ args.extent # None) =>
        LET E == args.extent[1]
            rejected == \/ E % AlignmentRequirement(args.attributes) # 0
                        \/ E < ArgsMinimalExtent
        IN  /\ error = "InvalidExtentError" <=> rejected
            /\ ~rejected => (error = "none" /\ self.extent = E)

\* C4 on the types that have a field at least
C4_ExplicitExtentOfNonEmpty ==
    Fields(args.attributes) # <<>> => C4_ExplicitExtent

\* The ordered fold the claim describes: from {0}, pad the running set to the
\* alignment of field i, then add the set of field i element by element.
RECURSIVE OrderedSum(_, _, _)
OrderedSum(running, field_types, i) ==
    IF i > Len(field_types) THEN running
    ELSE OrderedSum({PadUp(x, field_types[i].alignment_requirement) + y :
                        x \in running, y \in field_types[i].bit_length_set},
                    field_types, i + 1)

ManyVariants == [i \in 1..2000 |-> U16]
ManyVariantsBitLengthSet ==
    PadToAlignment(UnionAggregate(ManyVariants).value, BITS_PER_BYTE)

\* C6: the bit_length_set of a final UnionType of two variants or more is
\* the union of the variants' sets, every element shifted by the tag width,
\* padded to the alignment requirement of the union; two 16-bit variants
\* give {24}, 2000 of them give {32}.
C6_UnionBitLengthSet ==
    (pc = "constructed" /\ self.meta = "UnionType" /\ self.final) =>
        /\ BitLengthSetOf(self) =
              {PadUp(x + TagBitLength(self), SelfAlignment) :
                  x \in UNION {FieldTypes(self.attributes)[i].bit_length_set :
                                  i \in 1..Len(FieldTypes(self.attributes))}}
        /\ self.attributes = <<Field(U16, "a"), Field(U16, "b")>> =>
              BitLengthSetOf(self) = {24}
        /\ ManyVariantsBitLengthSet = {32}

\* A final union of two variants with sets of several elements
C6_Witness ==
    /\ pc = "constructed" /\ self.meta = "UnionType" /\ self.final
    /\ self.attributes = <<Field(Outer, "a"), Field(InnerFinal, "b")>>
    /\ BitLengthSetOf(self) = {24, 32, 40, 48, 56}

\* The base offset the generator was created with, {0} when none was given
GivenBase == IF gen.arg = None \/ gen.arg[1] = {} THEN {0} ELSE gen.arg[1]

C10_StructureOffsets ==
    (pc = "constructed" /\ self.meta = "StructureType") =>
        /\ \A i \in 1..Len(yielded) :
              /\ yielded[i].field = i
              /\ yielded[i].offset # {}
              /\ \A x \in yielded[i].offset :
                    x % Fields(self.attributes)[i].data_type.alignment_requirement = 0
        /\ \A i \in 1..(Len(yielded) - 1) :
              /\ SetMin(yielded[i + 1].offset) >= SetMin(yielded[i].offset)
              /\ SetMax(yielded[i + 1].offset) >= SetMax(yielded[i].offset)
        /\ gen.state = "finished" => Len(yielded) = Len(Fields(self.attributes))

\* A structure iterated to the end whose second field had to be aligned
C10_Witness ==
    /\ pc = "constructed" /\ self.meta = "StructureType" /\ gen.state = "finished"
    /\ self.attributes = <<Field(Outer, "a"), Field(Aligned16, "b")>>
    /\ gen.arg = Some({1, 16})
    /\ yielded[1].offset = {16}
    /\ yielded[2].offset = {32, 48, 64}

\* C11: iterated without a base offset, a StructureType with a field at least
\* yields for its last field an offset that, summed element by element with
\* the bit length set of that field, is _aggregate_bit_length_sets(); for a
\* UnionType the union over the variants of the yielded offset summed with
\* the set of the variant is _aggregate_bit_length_sets().
C11_OffsetsRoundTrip ==
    (pc = "constructed" /\ gen.state = "finished" /\ gen.arg = None) =>
        LET fields == Fields(self.attributes)
            n == Len(fields)
            end(i) == {x + y : x \in yielded[i].offset,
                               y \in fields[i].data_type.bit_length_set}
        IN  /\ Len(yielded) = n
            /\ (self.meta = "StructureType" /\ n >= 1) => end(n) = SelfAggregate
            /\ self.meta = "UnionType" => UNION {end(i) : i \in 1..n} = SelfAggregate

\* A structure and a union of three fields with sets of several elements,
\* iterated to the end without a base offset
C11_Witness ==
    /\ pc = "constructed" /\ gen.state = "finished" /\ gen.arg = None
    /\ Len(yielded) = 3
    /\ self.attributes = <<Field(Bool, "a"), Field(Outer, "b"), Field(Aligned16, "c")>>
    /\ self.meta = "UnionType"
    /\ yielded[3].offset = {16}
    /\ SelfAggregate = {17, 32, 40, 48, 56, 64}

\* The delimiter header width the claims give: max(32, alignment_requirement)
HeaderWidth(alignment) == IF alignment > 32 THEN alignment ELSE 32

\* C12: the bit_length_set of a non-final composite type is
\* {pad(i, alignment_requirement) + h : 0 <= i <= extent}, h being the width
\* of the delimiter header: a function of the extent and the alignment
\* requirement alone, with the minimum h and the maximum extent + h.
C12_DelimitedBitLengthSet ==
    (pc = "constructed" /\ ~self.final) =>
        LET h == HeaderWidth(SelfAlignment)
            bls == BitLengthSetOf(self)
        IN  /\ bls = {PadUp(i, SelfAlignment) + h : i \in 0..self.extent}
            /\ h \in bls /\ \A x \in bls : x >= h
            /\ (self.extent + h) \in bls /\ \A x \in bls : x <= self.extent + h

\* A non-final type of alignment 16 with the explicit extent 32, above the
\* padded aggregate
C12_Witness ==
    /\ pc = "constructed" /\ ~self.final
    /\ self.attributes = <<Field(Aligned16, "a")>>
    /\ args.extent = Some(48)
    /\ BitLengthSetOf(self) = {32, 48, 64, 80}

\* C13: delimiter_header_type is None for every final type; for every
\* non-final type it is an unsigned integer of max(32, alignment_requirement)
\* bits, a multiple of the alignment requirement.
C13_DelimiterHeader ==
    pc = "constructed" =>
        /\ self.final => DelimiterHeaderBitLength(self) = None
        /\ ~self.final =>
              /\ DelimiterHeaderBitLength(self) = Some(HeaderWidth(SelfAlignment))
              /\ DelimiterHeaderBitLength(self)[1] % SelfAlignment = 0

\* A non-final type aligned at 64 bits, whose header is 64 bits wide
C13_Witness ==
    /\ pc = "constructed" /\ ~self.final
    /\ SelfAlignment = 64
    /\ DelimiterHeaderBitLength(self) = Some(64)

\* C14: every BitLengthSet that bit_length_set hands out is an independent
\* copy: whatever the caller has done in place to the sets returned before,
\* a read of bit_length_set, by the caller or by a containing type, returns
\* the value the type has.
C14_IndependentCopies ==
    pc = "constructed" =>
        \A i \in 1..Len(mem.reads) : mem.reads[i] = BitLengthSetOf(self)

\* C14 where cached_property is the plain property (the import of line 19 failed)
C14_PlainProperty ==
    (pc = "constructed" /\ ~mem.cached_property) => C14_IndependentCopies

\* The offset the i-th next() yields when nobody mutates anything
RECURSIVE Resumed(_, _, _)
Resumed(t, base, i) ==
    IF i = 0 THEN [gen |-> NewGenerator(base), out |-> None]
    ELSE GeneratorResume(t, Resumed(t, base, i - 1).gen)

\* C15: every offset iterate_fields_with_offsets yields is a dedicated copy
\* and not empty: whatever the consumer has done in place to the sets yielded
\* before, in this iteration or an earlier one, each offset is the one an
\* undisturbed iteration yields.
C15_YieldedCopies ==
    pc = "constructed" =>
        \A i \in 1..Len(yielded) :
            /\ yielded[i].offset # {}
            /\ yielded[i].offset = Resumed(self, gen.arg, i).out[1].offset
            /\ \A j \in 1..Len(mem.refs) : i # j => mem.refs[i] # mem.refs[j]
            /\ mem.refs[i] # mem.base

\* A second iteration over a structure, finished after the consumer has
\* changed the first offset of that iteration before asking for the second
C15_Witness ==
    /\ pc = "constructed" /\ self.meta = "StructureType"
    /\ gen.state = "finished"
    /\ mem.iterations = 2
    /\ mem.mutations = 1
    /\ Len(yielded) = 2
    /\ mem.heap[mem.refs[1]] # yielded[1].offset
    /\ yielded[2].offset = {16}

\* The arguments of a ServiceType call are valid: a name of a namespace and
\* a short name within MAX_NAME_LENGTH, a version other than 0.0 within the
\* limits, no port ID or one within 0..MAX_SERVICE_ID, and schema parameters
\* from which the request and the response type construct.
ValidServiceArguments ==
    /\ meta = "ServiceType"
    /\ pc \in {"constructed", "failed"}
    /\ args.name \in {TypeName, LongName}
    /\ args.version = Version(0, 1)
    /\ args.fixed_port_id \in {None} \cup {Some(p) : p \in 0..MAX_SERVICE_ID}
    /\ Construct(SchemaMeta(args.request_params),
                 SchemaArgs(args, args.request_params, RequestSuffix)).raised = "none"
    /\ Construct(SchemaMeta(args.response_params),
                 SchemaArgs(args, args.response_params, ResponseSuffix)).raised = "none"

\* C16: a ServiceType call with a valid name (50 characters at most, the
\* names of the halves being longer), version and schema parameters succeeds;
\* the service is final, its only fields are 'request' and 'response', and
\* request_type and response_type have the service as parent_service, no
\* fixed port ID and an empty source path.
C16_ServiceConstructed ==
    ValidServiceArguments =>
        /\ error = "none"
        /\ pc = "constructed"
        /\ self.final
        /\ Len(self.attributes) = 2
        /\ self.attributes[1].cls = "Field" /\ self.attributes[1].name = "request"
        /\ self.attributes[2].cls = "Field" /\ self.attributes[2].name = "response"
        /\ \A half \in {self.request_type, self.response_type} :
              /\ half.parent_service = self.name
              /\ half.fixed_port_id = None
              /\ half.source_file_path = <<>>

C18_MalformedUnion ==
    (/\ meta = "UnionType"
     /\ pc \in {"constructed", "failed"}
     /\ CompositeInit("UnionType", args).raised = "none"
     /\ \/ Cardinality({i \in 1..Len(args.attributes) :
                            args.attributes[i].cls \in {"Field", "PaddingField"}}) < 2
        \/ \E i \in 1..Len(args.attributes) :
              \/ args.attributes[i].cls = "PaddingField"
              \/ args.attributes[i].name = ""
              \/ args.attributes[i].data_type.kind = "void")
    => (error = "MalformedUnionError" /\ self = NoObject /\ pc = "failed")

\* A union of a variant and a padding field, two fields by count, with an
\* explicit extent the base constructor accepts
C18_Witness ==
    /\ meta = "UnionType"
    /\ args.attributes = <<Field(U16, "a"), PaddingField(Void3)>>
    /\ args.extent = Some(24) /\ args.final
    /\ error = "MalformedUnionError"

\* Two attributes that are not padding fields have the same name.
SharedName ==
    \E i, j \in 1..Len(args.attributes) :
        /\ i # j
        /\ args.attributes[i].cls # "PaddingField"
        /\ args.attributes[j].cls # "PaddingField"
        /\ args.attributes[i].name = args.attributes[j].name

\* C19: a constructor call with deprecated=False whose name, version,
\* attribute names and port ID are valid fails with DeprecatedDependencyError
\* if the data type of one of its attributes is a deprecated composite type;
\* a call with deprecated=True never fails with that error.
C19_DeprecatedDependency ==
    pc \in {"constructed", "failed"} =>
        /\ (/\ ~args.deprecated
            /\ args.name = TypeName /\ args.version = Version(0, 1)
            /\ ~SharedName /\ args.fixed_port_id = None
            /\ \E i \in 1..Len(args.attributes) :
                  args.attributes[i].data_type = InnerDeprecated)
           => error = "DeprecatedDependencyError"
        /\ args.deprecated => error # "DeprecatedDependencyError"

\* The second attribute of a type that is not deprecated is of a deprecated type
C19_Witness ==
    /\ pc = "failed"
    /\ ~args.deprecated
    /\ args.attributes = <<Field(U16, "b"), Field(InnerDeprecated, "d")>>
    /\ error = "DeprecatedDependencyError"

\* C20: a constructor call with a valid name and version fails with
\* AttributeNameCollisionError if and only if two attributes that are not
\* padding fields, fields or constants, have the same name; padding fields,
\* however many, make no collision.
C20_NameCollision ==
    (pc \in {"constructed", "failed"} /\ args.name = TypeName /\ args.version = Version(0, 1))
        => (error = "AttributeNameCollisionError" <=> SharedName)

\* A field and a constant of the same name
C20_Witness ==
    /\ pc = "failed"
    /\ args.attributes = <<Field(U16, "a"), Constant(U16, "a")>>
    /\ error = "AttributeNameCollisionError"

\* The checks before the port ID check pass: for a message a valid name and
\* version and no shared attribute name, for a service a valid name and
\* version and halves that construct.
ChecksBeforePortIdPass ==
    IF meta = "ServiceType"
    THEN /\ args.name \in {TypeName, LongName}
         /\ args.version = Version(0, 1)
         /\ Construct(SchemaMeta(args.request_params),
                      SchemaArgs(args, args.request_params, RequestSuffix)).raised = "none"
         /\ Construct(SchemaMeta(args.response_params),
                      SchemaArgs(args, args.response_params, ResponseSuffix)).raised = "none"
    ELSE /\ args.name = TypeName
         /\ args.version = Version(0, 1)
         /\ ~SharedName

\* C21: a fixed port ID is checked against the range of the class: a
\* ServiceType call passes the check exactly with 0..MAX_SERVICE_ID, a
\* StructureType or UnionType call exactly with 0..MAX_SUBJECT_ID, any other
\* value raises InvalidFixedPortIDError; without a port ID the check is
\* skipped; the request and the response type have no port ID.
C21_PortIdRange ==
    /\ (pc \in {"constructed", "failed"} /\ ChecksBeforePortIdPass) =>
          LET limit == IF meta = "ServiceType" THEN MAX_SERVICE_ID ELSE MAX_SUBJECT_ID
          IN  error = "InvalidFixedPortIDError" <=>
                  /\ args.fixed_port_id # None
                  /\ args.fixed_port_id[1] \notin 0..limit
    /\ pc \in {"response", "container"} => self.request_type.fixed_port_id = None
    /\ pc = "container" => self.response_type.fixed_port_id = None

\* A service call rejected for a port ID that a message may have
C21_Witness ==
    /\ meta = "ServiceType" /\ pc = "failed"
    /\ ChecksBeforePortIdPass
    /\ args.fixed_port_id = Some(MAX_SUBJECT_ID)
    /\ error = "InvalidFixedPortIDError"

\* The union aggregate of no variant is {0}, of one variant the set of that
\* variant with no tag added.
UnionDegenerateAggregates ==
    /\ UnionAggregate(<<>>) = Return({0})
    /\ \A t \in {U16, Bool, Outer, Aligned16, InnerFinal, InnerDelimited} :
          UnionAggregate(<<t>>) = Return(t.bit_length_set)

\* C22: the bit length set of a composite type is never empty: a structure
\* without fields constructs, its aggregate bit length set is {0}, and if it
\* is final its bit_length_set is {0} and its extent 0; the union aggregate
\* of no variant is {0} and of one variant that variant's set, without a tag.
C22_NeverEmpty ==
    /\ (/\ pc \in {"constructed", "failed"}
        /\ meta = "StructureType"
        /\ Fields(args.attributes) = <<>>
        /\ args.extent = None)
       => /\ error = "none"
          /\ SelfAggregate = {0}
          /\ self.final => (BitLengthSetOf(self) = {0} /\ self.extent = 0)
    /\ pc = "constructed" => BitLengthSetOf(self) # {}
    /\ UnionDegenerateAggregates

\* C22 on the types that have a field at least, and on the union aggregates
C22_NeverEmptyOfNonEmpty ==
    Fields(args.attributes) # <<>> => C22_NeverEmpty

\* C23: type[name] returns the attribute of that name for every named field
\* and constant of the type, and raises KeyError for a name that no named
\* attribute carries and for the empty name of the padding fields; the type
\* is afterwards what construction made it.
C23_Lookup ==
    pc = "constructed" =>
        /\ \A i \in DOMAIN self.attributes :
              self.attributes[i].cls # "PaddingField" =>
                  GetItem(self, self.attributes[i].name) = Return(self.attributes[i])
        /\ item # None =>
              LET name == item[1].attribute_name
                  result == item[1].result
                  carriers == {i \in DOMAIN self.attributes :
                                  /\ self.attributes[i].cls # "PaddingField"
                                  /\ self.attributes[i].name = name}
              IN  /\ carriers # {} =>
                        /\ result.raised = "none"
                        /\ \E i \in carriers : result.value = self.attributes[i]
                  /\ carriers = {} => result = Raise("KeyError", name)
                  /\ name = "" => result.raised = "KeyError"
                  /\ self = NewObject(meta, args, self.extent)

C23_Witness ==
    /\ pc = "constructed"
    /\ \E i \in DOMAIN self.attributes : self.attributes[i].cls = "PaddingField"
    /\ \E i \in DOMAIN self.attributes : self.attributes[i].cls = "Constant"
    /\ item # None
    /\ item[1].attribute_name = ""
    /\ item[1].result.raised = "KeyError"

\* The extent check as the arguments violate it: the extent given, or the
\* default one, is no multiple of the alignment requirement, is less than the
\* minimal extent, or differs from it in a final type.
ExtentViolated ==
    LET alignment == AlignmentRequirement(args.attributes)
        ext == IF args.extent # None THEN args.extent[1]
               ELSE IF args.final THEN ArgsMinimalExtent
               ELSE PadUp(2 * SetMax(ArgsAggregate), alignment)
    IN  \/ ext % alignment # 0
        \/ ext < ArgsMinimalExtent
        \/ args.final /\ ext # ArgsMinimalExtent

\* The steps of the constructor that the arguments violate, numbered in the
\* order of the claim: 1 name, 2 version, 3 attribute names, 4 port ID,
\* 5 deprecated dependency, 6 extent, 7 variant count, 8 padding or void.
ViolatedSteps ==
    {k \in 1..8 :
        \/ k = 1 /\ args.name # TypeName
        \/ k = 2 /\ args.version # Version(0, 1)
        \/ k = 3 /\ SharedName
        \/ k = 4 /\ args.fixed_port_id # None /\ args.fixed_port_id[1] \notin 0..MAX_SUBJECT_ID
        \/ k = 5 /\ ~args.deprecated
                 /\ \E i \in 1..Len(args.attributes) :
                       args.attributes[i].data_type = InnerDeprecated
        \/ k = 6 /\ ExtentViolated
        \/ k = 7 /\ meta = "UnionType"
                 /\ Cardinality({i \in 1..Len(args.attributes) :
                                    args.attributes[i].cls \in {"Field", "PaddingField"}}) < 2
        \/ k = 8 /\ meta = "UnionType"
                 /\ \E i \in 1..Len(args.attributes) :
                       \/ args.attributes[i].cls = "PaddingField"
                       \/ args.attributes[i].data_type.kind = "void"}

StepErrors ==
    <<"InvalidNameError", "InvalidVersionError", "AttributeNameCollisionError",
      "InvalidFixedPortIDError", "DeprecatedDependencyError", "InvalidExtentError",
      "MalformedUnionError", "MalformedUnionError">>

\* The steps that raise the error e: ValueError is raised where the extent
\* step takes the maximum of the aggregate bit length set.
ErrorSteps(e) ==
    IF e = "ValueError" THEN {6}
    ELSE {k \in 1..8 : StepErrors[k] = e}

\* C24: the checks of a constructor run in the order name, version, attribute
\* names, port ID, deprecated dependency, extent, and for a union then variant
\* count and padding: a call whose arguments violate one step or several
\* raises the error of the first step violated, and whatever a call raises,
\* its arguments violate no step before the one that raised.
C24_CheckOrder ==
    pc \in {"constructed", "failed"} =>
        /\ ViolatedSteps # {} => SetMin(ViolatedSteps) \in ErrorSteps(error)
        /\ error # "none" =>
              ViolatedSteps \cap (1..(SetMin(ErrorSteps(error)) - 1)) = {}

\* A union call that violates the version, the extent and the variant count
C24_Witness ==
    /\ pc = "failed"
    /\ meta = "UnionType"
    /\ ViolatedSteps = {2, 6, 7}
    /\ error = "InvalidVersionError"

\* C25: a constructor call with final=False and no extent never raises
\* InvalidExtentError: the default extent, the doubled maximum of the
\* aggregate bit length set padded to the alignment requirement, is a
\* multiple of the alignment requirement and no less than the minimal extent,
\* and it is the extent of the type when the call succeeds.
C25_DefaultExtentValid ==
    (pc \in {"constructed", "failed"} /\ ~args.final /\ args.extent = None) =>
        /\ error # "InvalidExtentError"
        /\ error # "ValueError" =>
              LET alignment == AlignmentRequirement(args.attributes)
                  agg == AggregateBitLengthSets(meta, args.attributes).value
                  default == PadUp(2 * SetMax(agg), alignment)
                  minimal == SetMax({PadUp(x, alignment) : x \in agg})
              IN  /\ default % alignment = 0
                  /\ default >= minimal
                  /\ error = "none" => self.extent = default

\* A type whose doubled maximum is no multiple of its alignment requirement,
\* and one whose default extent equals its minimal extent
C25_Witness ==
    /\ pc = "constructed" /\ ~args.final /\ args.extent = None
    /\ (2 * SetMax(SelfAggregate)) % SelfAlignment # 0
    /\ self.extent = SetMax({PadUp(x, SelfAlignment) : x \in SelfAggregate})

====
